---- MODULE Spec2Model ----
(***************************************************************************)
(* Model of the Cupido order-fulfilment service (caue-mor/cp-tfd).         *)
(*                                                                         *)
(* The store (cupido_orders, cupido_messages, cupido_presentations) is     *)
(* the shared state.  Request handlers and the scheduler job are           *)
(* coroutines on one event loop: every Supabase call is synchronous, so a  *)
(* handler runs atomically from one `await` to the next.  Each action      *)
(* below is one such atomic stretch of a handler.                          *)
(*                                                                         *)
(* Store writes are taken to succeed, except create_message and            *)
(* create_presentation, whose failure the handlers branch on.              *)
(*                                                                         *)
(* The payment webhook, the phone validators and the fidelity test        *)
(* (FidelidadeService) have specifications of their own further down, as  *)
(* have the audio sub-flow, a deployment with two processes, the retry of  *)
(* failed sweep deliveries, and payments that carry a sale_id.             *)
(***************************************************************************)
EXTENDS Integers, Sequences, FiniteSets, TLC

(* ------------------------------ bounds --------------------------------- *)
MaxTime == 1
MaxStored == 2
MaxFairStored == 1

(* ----------------------------- constants ------------------------------- *)
Tokens == {"t1"}
UnknownToken == "nope"
PlanTypes == {"basico", "com_audio", "multi_mensagem", "premium_historia"}
Calls == {1, 2}

\* phones are sequences of characters; no phone is the empty string
NoPhone == <<>>
PhoneFormatted == <<"+", "5", "5", " ", "(", "8", "5", ")", " ", "9", "9", "9", "9", "9", "-", "9", "9", "9", "9">>
PhoneLocal == <<"8", "5", "9", "8", "8", "8", "8", "7", "7", "7", "7">>
PhoneShort == <<"1", "2", "3">>
\* the phones a request may carry, and those the requests of Spec carry
RequestPhones == {PhoneFormatted, PhoneLocal, PhoneShort}
PhoneInputs == {PhoneFormatted, PhoneShort}

\* the scheduled_at field of the request body
SchedInputs ==
    {[kind |-> "absent", t |-> 0], [kind |-> "invalid", t |-> 0]}
        \cup {[kind |-> "iso", t |-> t] : t \in 0..MaxTime}

VARIABLES
    clock,          \* server clock (datetime.now(timezone.utc))
    orders,         \* cupido_orders rows, by form token
    messages,       \* cupido_messages rows, in insertion order
    presentations,  \* number of cupido_presentations rows per order
    calls,          \* submit_form coroutines
    upload,         \* upload_premium coroutine
    sweep,          \* process_scheduled_messages job
    lastResp,       \* response sent by the last step, if it answered a request
    trace,          \* per message: how it was accepted and sent (history)
    link_sends,     \* send_text calls made to buyers by the payment webhook
    phone_check,    \* a phone handed to the validators, and what they returned
    fidelidade_tests,       \* fidelidade_tests rows, in insertion order
    fidelidade_messages,    \* fidelidade_messages rows, in insertion order
    fidelidade_out,         \* what the last FidelidadeService call returned
    audio,          \* generate_send_and_cleanup coroutine, and the file in storage
    sweep2,         \* process_scheduled_messages job of another process instance
    webhooks,       \* webhook_lowify coroutines
    sale_id_of      \* the sale_id column of cupido_orders

vars == <<clock, orders, messages, presentations, calls, upload, sweep,
          lastResp, trace, link_sends, phone_check,
          fidelidade_tests, fidelidade_messages, fidelidade_out,
          audio, sweep2, webhooks, sale_id_of>>

\* the state of the fidelity test feature
fidelidade == <<fidelidade_tests, fidelidade_messages, fidelidade_out>>

\* the state of the audio sub-flow, of another process instance, and of the
\* payment webhook handled as a coroutine
elsewhere == <<audio, sweep2, webhooks, sale_id_of>>

\* the rest of the state
core == <<clock, orders, messages, presentations, calls, upload, sweep,
          lastResp, trace, link_sends, phone_check, fidelidade>>

(* ------------------------------ plans ---------------------------------- *)
max_messages(plan) ==
    CASE plan = "basico" -> 1
      [] plan = "com_audio" -> 1
      [] plan = "multi_mensagem" -> 5
      [] plan = "premium_historia" -> 1

has_audio(plan) == plan \in {"com_audio", "multi_mensagem", "premium_historia"}

(* ---------------------------- validators ------------------------------- *)
Digit == {"0", "1", "2", "3", "4", "5", "6", "7", "8", "9"}
WhatsAppNet == <<"@", "s", ".", "w", "h", "a", "t", "s", "a", "p", "p", ".", "n", "e", "t">>
WhatsAppCUs == <<"@", "c", ".", "u", "s">>

\* str.replace(old, ""): every non-overlapping occurrence, left to right
RECURSIVE replace(_, _)
replace(text, old) ==
    IF Len(text) < Len(old) THEN text
    ELSE IF SubSeq(text, 1, Len(old)) = old
         THEN replace(SubSeq(text, Len(old) + 1, Len(text)), old)
         ELSE <<Head(text)>> \o replace(Tail(text), old)

\* re.sub(r"[^\d]", "", text)
re_sub(text) == SelectSeq(text, LAMBDA ch : ch \in Digit)

\* lines 12-13 and 27-28
phone_clean(phone) == re_sub(replace(replace(phone, WhatsAppNet), WhatsAppCUs))

\* the lower limit off by one
validate_phone_11(phone) ==
    IF phone = <<>> THEN FALSE
    ELSE 11 <= Len(phone_clean(phone)) /\ Len(phone_clean(phone)) <= 15

validate_phone(phone) ==
    IF phone = <<>> THEN FALSE
    ELSE 10 <= Len(phone_clean(phone)) /\ Len(phone_clean(phone)) <= 15

clean_phone_for_whatsapp(phone) ==
    IF Len(phone_clean(phone)) = 11 THEN <<"5", "5">> \o phone_clean(phone)
    ELSE IF Len(phone_clean(phone)) = 10 THEN <<"5", "5">> \o phone_clean(phone)
    ELSE phone_clean(phone)

\* the validators on the phones of the requests, computed once
phone_valid == [phone \in RequestPhones |-> validate_phone(phone)]
recipient_clean_of == [phone \in RequestPhones |-> clean_phone_for_whatsapp(phone)]

(* ------------------------------ store ---------------------------------- *)
NoOrder ==
    [exists |-> FALSE, plan |-> "basico", status |-> "none",
     messages_sent |-> 0, recipient_phone |-> NoPhone, delivered_at |-> FALSE]

get_order_by_token(token) ==
    IF token \in Tokens /\ orders[token].exists THEN orders[token] ELSE NoOrder

MsgIds == 1..Len(messages)

get_messages_by_order(msgs, order_id) ==
    {i \in 1..Len(msgs) : msgs[i].order_id = order_id}

\* the write is lost
mark_message_delivered_lost(msgs, id) == msgs

mark_message_delivered(msgs, id) ==
    [msgs EXCEPT ![id].delivered = TRUE]

\* the query without its .lte("scheduled_at", now) filter
IsDue_any_time(m, now) ==
    /\ ~m.delivered
    /\ m.scheduled_at # {}

\* the query without its .eq("delivered", False) filter
IsDue_even_delivered(m, now) ==
    /\ m.scheduled_at # {}
    /\ \A s \in m.scheduled_at : s <= now

\* the query without its .not_.is_("scheduled_at", "null") filter
IsDue_unscheduled(m, now) ==
    /\ ~m.delivered
    /\ \A s \in m.scheduled_at : s <= now

\* lines 198-200: the filters of the query
IsDue(m, now) ==
    /\ ~m.delivered
    /\ m.scheduled_at # {}
    /\ \A s \in m.scheduled_at : s <= now

RECURSIVE SortBySchedule(_)
SortBySchedule(ids) ==
    IF ids = {} THEN <<>>
    ELSE LET first == CHOOSE i \in ids : \A j \in ids :
                        \/ \A a \in messages[i].scheduled_at,
                              b \in messages[j].scheduled_at : a < b
                        \/ /\ messages[i].scheduled_at = messages[j].scheduled_at
                           /\ i <= j
         IN <<first>> \o SortBySchedule(ids \ {first})

\* rows of the query, each joined with its parent order as of the query
get_pending_scheduled_messages(now) ==
    LET due == {i \in MsgIds : IsDue(messages[i], now)}
        ids == SortBySchedule(due)
    IN [k \in 1..Len(ids) |->
            [id |-> ids[k],
             order_id |-> messages[ids[k]].order_id,
             recipient_phone |-> orders[messages[ids[k]].order_id].recipient_phone]]

(* ------------------------------ init ----------------------------------- *)
IdleCall == [pc |-> "idle", token |-> UnknownToken, messages_sent |-> 0,
             msg |-> 0]
IdleUpload == [pc |-> "idle", token |-> UnknownToken, phone |-> NoPhone]
\* batch: the rows still to process; tried: those processed, with the outcome
IdleSweep == [pc |-> "idle", batch |-> <<>>, tried |-> <<>>]
NoCheck == [pc |-> "done", phone |-> NoPhone, valid |-> FALSE, clean |-> NoPhone]
NoOut == [op |-> "none", success |-> FALSE, error |-> "none", sent |-> FALSE,
          blurred |-> FALSE, contents |-> <<>>]
NoResp == [op |-> "none", token |-> UnknownToken, code |-> "none",
           error |-> "none"]
\* path: the message_index of the file path; files: the paths in storage;
\* log: the steps of the last call, in order; send_ok: what send_audio returned
IdleAudio == [pc |-> "idle", path |-> 0, files |-> {}, log |-> <<>>,
              send_ok |-> FALSE]
\* tried: the rows processed in the last run; sent: the messages this job
\* delivered, in order; failed: those it failed to deliver and has not
\* delivered since
IdleSweep2 == [pc |-> "idle", batch |-> <<>>, tried |-> <<>>, sent |-> <<>>,
               failed |-> {}]
WebhookCalls == {1, 2}
NoSale == ""
IdleWebhook == [pc |-> "idle", token |-> UnknownToken]

Init ==
    /\ clock = 0
    /\ orders = [t \in Tokens |-> NoOrder]
    /\ messages = <<>>
    /\ presentations = [t \in Tokens |-> 0]
    /\ calls = [c \in Calls |-> IdleCall]
    /\ upload = IdleUpload
    /\ sweep = IdleSweep
    /\ lastResp = NoResp
    /\ trace = <<>>
    /\ link_sends = 0
    /\ phone_check = NoCheck
    /\ fidelidade_tests = <<>>
    /\ fidelidade_messages = <<>>
    /\ fidelidade_out = NoOut
    /\ audio = IdleAudio
    /\ sweep2 = IdleSweep2
    /\ webhooks = [w \in WebhookCalls |-> IdleWebhook]
    /\ sale_id_of = [t \in Tokens |-> NoSale]

(* ------------------------------ clock ---------------------------------- *)
Tick ==
    /\ clock < MaxTime
    /\ clock' = clock + 1
    /\ lastResp' = NoResp
    /\ UNCHANGED <<orders, messages, presentations, calls, upload, sweep, trace,
                   link_sends, phone_check, fidelidade, elsewhere>>

(* --------------------------- submit_form ------------------------------- *)
\* a JSONResponse: the status code (or the "status" of a 200) and its "error"
Respond(op, token, code, error) ==
    [op |-> op, token |-> token, code |-> code, error |-> error]

\* datetime.fromisoformat: the parsed instant, or ValueError
fromisoformat(s) ==
    IF s.kind = "iso" THEN [ok |-> TRUE, t |-> s.t] ELSE [ok |-> FALSE, t |-> 0]

\* the quota check off by one
remaining_lenient(plan, messages_sent) == max_messages(plan) - messages_sent + 1

\* line 78
remaining(plan, messages_sent) == max_messages(plan) - messages_sent

\* lines 149-153
is_scheduled(scheduled_dt, now) == \E s \in scheduled_dt : s > now

\* what the request asked for: a scheduled_at strictly after the clock
AskedFuture(scheduled_at, now) == scheduled_at.kind = "iso" /\ scheduled_at.t > now

\* lines 72-83: look the order up, check the quota, suspend on request.json()
SubmitStart(c, token) ==
    /\ calls[c].pc = "idle"
    /\ \A d \in Calls : d < c => calls[d].pc # "idle"
    /\ LET order == get_order_by_token(token)
       IN IF ~order.exists
          THEN /\ lastResp' = Respond("submit", token, "404", "Order not found")
               /\ UNCHANGED calls
          ELSE IF remaining(order.plan, order.messages_sent) <= 0
          THEN /\ lastResp' = Respond("submit", token, "400",
                                      "Todas as mensagens ja foram enviadas")
               /\ UNCHANGED calls
          ELSE /\ calls' = [calls EXCEPT ![c] =
                    [pc |-> "json", token |-> token,
                     messages_sent |-> order.messages_sent,
                     msg |-> 0]]
               /\ lastResp' = NoResp
    /\ UNCHANGED <<clock, orders, messages, presentations, upload, sweep, trace,
                   link_sends, phone_check, fidelidade, elsewhere>>

\* the counter written back without the increment
new_messages_sent_stale(messages_sent) == messages_sent

\* line 139
new_messages_sent(messages_sent) == messages_sent + 1

\* the counter read again from the store when the message is stored
order_messages_sent_reread(c) == orders[calls[c].token].messages_sent

\* line 77: the counter of the order read at line 72, before the await
order_messages_sent(c) == calls[c].messages_sent

\* lines 83-169: the body arrives; validate, store, count, then either
\* answer "scheduled" or suspend in deliver_single_message
SubmitBody(c, recipient_phone, message_empty, has_audio_text, scheduled_at, saved) ==
    /\ calls[c].pc = "json"
    /\ LET token == calls[c].token
           plan == orders[token].plan
           messages_sent == order_messages_sent(c)
           recipient_clean == recipient_clean_of[recipient_phone]
           parsed == fromisoformat(scheduled_at)
           scheduled_dt == IF scheduled_at.kind = "absent" THEN {} ELSE {parsed.t}
           new_sent == new_messages_sent(messages_sent)
           new_remaining == remaining(plan, new_sent)
           scheduled == is_scheduled(scheduled_dt, clock)
           message_data == [order_id |-> token, message_index |-> messages_sent,
                            scheduled_at |-> scheduled_dt, delivered |-> FALSE]
           id == Len(messages) + 1
           Reject(code, error) ==
               /\ lastResp' = Respond("submit", token, code, error)
               /\ calls' = [calls EXCEPT ![c] = IdleCall]
       IN IF ~phone_valid[recipient_phone]
          THEN /\ Reject("400", "Telefone invalido")
               /\ UNCHANGED <<orders, messages, trace>>
          ELSE IF message_empty
          THEN /\ Reject("400", "Mensagem nao pode ser vazia")
               /\ UNCHANGED <<orders, messages, trace>>
          ELSE IF has_audio_text
          \* line 98: PlanConfig has no audio_char_limit, AttributeError
          THEN /\ Reject("500", "AttributeError")
               /\ UNCHANGED <<orders, messages, trace>>
          ELSE IF scheduled_at.kind # "absent" /\ ~parsed.ok
          THEN /\ Reject("400", "Data de agendamento invalida")
               /\ orders' = [orders EXCEPT ![token].recipient_phone = recipient_clean]
               /\ UNCHANGED <<messages, trace>>
          ELSE IF ~saved
          THEN /\ Reject("500", "Falha ao salvar mensagem")
               /\ orders' = [orders EXCEPT ![token].recipient_phone = recipient_clean]
               /\ UNCHANGED <<messages, trace>>
          ELSE /\ messages' = Append(messages, message_data)
               /\ trace' = Append(trace, [future |-> AskedFuture(scheduled_at, clock),
                                          inline |-> ~scheduled,
                                          inline_ok |-> FALSE, sweep_sends |-> 0])
               /\ IF scheduled
                  THEN /\ orders' = [orders EXCEPT
                              ![token].recipient_phone = recipient_clean,
                              ![token].messages_sent = new_sent,
                              ![token].status =
                                  IF new_remaining <= 0 THEN "submitted" ELSE @]
                       /\ lastResp' = Respond("submit", token, "scheduled", "none")
                       /\ calls' = [calls EXCEPT ![c] = IdleCall]
                  ELSE /\ orders' = [orders EXCEPT
                              ![token].recipient_phone = recipient_clean,
                              ![token].messages_sent = new_sent]
                       /\ calls' = [calls EXCEPT ![c] =
                              [pc |-> "deliver", token |-> token,
                               messages_sent |-> messages_sent, msg |-> id]]
                       /\ lastResp' = NoResp
    /\ UNCHANGED <<clock, presentations, upload, sweep, link_sends, phone_check, fidelidade, elsewhere>>

\* the message is left as it was after a successful send
deliver_single_message_unmarked(msgs, id, success) == msgs

\* the update without its delivered_at
order_delivered_undated(ords, token) ==
    [ords EXCEPT ![token].status = "delivered"]

\* form.py lines 176-179, api.py lines 69-72: status and delivered_at go in
\* one update
order_delivered(ords, token) ==
    [ords EXCEPT ![token].status = "delivered", ![token].delivered_at = TRUE]

\* CupidoService.deliver_single_message, once the transport call has returned:
\* on success the message is marked delivered
deliver_single_message(msgs, id, success) ==
    IF success THEN mark_message_delivered(msgs, id) ELSE msgs

SentInline(tr, id, success) ==
    IF success THEN [tr EXCEPT ![id].inline_ok = TRUE] ELSE tr

SentBySweep(tr, id, success) ==
    IF success THEN [tr EXCEPT ![id].sweep_sends = @ + 1] ELSE tr

\* lines 169-185: the transport call of the inline delivery returns
SubmitDeliver(c, success) ==
    /\ calls[c].pc = "deliver"
    /\ LET token == calls[c].token
           new_sent == new_messages_sent(calls[c].messages_sent)
           new_remaining == remaining(orders[token].plan, new_sent)
       IN /\ messages' = deliver_single_message(messages, calls[c].msg, success)
          /\ trace' = SentInline(trace, calls[c].msg, success)
          /\ IF ~success
             THEN /\ lastResp' = Respond("submit", token, "500",
                                         "Falha ao enviar mensagem")
                  /\ UNCHANGED orders
             ELSE /\ lastResp' = Respond("submit", token, "ok", "none")
                  /\ orders' = IF new_remaining <= 0
                               THEN order_delivered(orders, token)
                               ELSE orders
          /\ calls' = [calls EXCEPT ![c] = IdleCall]
    /\ UNCHANGED <<clock, presentations, upload, sweep, link_sends, phone_check, fidelidade, elsewhere>>

(* -------------------- process_scheduled_messages ----------------------- *)
\* lines 26-56: query the due messages; with a non-empty batch the job
\* suspends in the delivery of the first one.  The job is added with the
\* scheduler's default of one running instance, so sweeps never overlap.
SweepStart ==
    /\ sweep.pc = "idle"
    /\ LET rows == get_pending_scheduled_messages(clock)
       IN /\ sweep' = IF rows = <<>> THEN IdleSweep
                      ELSE [pc |-> "deliver", batch |-> rows, tried |-> <<>>]
    /\ lastResp' = NoResp
    /\ UNCHANGED <<clock, orders, messages, presentations, calls, upload, trace,
                   link_sends, phone_check, fidelidade, elsewhere>>

\* the count of undelivered messages skipped
AllDelivered_unchecked(msgs, order_id) == TRUE

\* lines 61-73: after a successful delivery, re-read the order's messages
AllDelivered(msgs, order_id) ==
    \A i \in get_messages_by_order(msgs, order_id) : msgs[i].delivered

\* the row is tried again after a failure
remaining_batch_retry(batch, success) == IF success THEN Tail(batch) ELSE batch

\* the loop left at the first failure
remaining_batch_abort(batch, success) == IF success THEN Tail(batch) ELSE <<>>

\* lines 39-78: the body of the loop is a try/except of its own, so the loop
\* goes on to the next row whatever happened to this one
remaining_batch(batch, success) == Tail(batch)

\* lines 56-78: the transport call for the head of the batch returns;
\* a failure (False or an exception) is logged and the loop goes on
SweepDeliver(success) ==
    /\ sweep.pc = "deliver"
    /\ LET row == Head(sweep.batch)
           rest == remaining_batch(sweep.batch, success)
           msgs == deliver_single_message(messages, row.id, success)
       IN /\ messages' = msgs
          /\ trace' = SentBySweep(trace, row.id, success)
          /\ orders' = IF success /\ AllDelivered(msgs, row.order_id)
                       THEN order_delivered(orders, row.order_id)
                       ELSE orders
          /\ sweep' = IF rest = <<>> THEN IdleSweep
                      ELSE [pc |-> "deliver", batch |-> rest,
                            tried |-> Append(sweep.tried,
                                             [id |-> row.id, ok |-> success])]
    /\ lastResp' = NoResp
    /\ UNCHANGED <<clock, presentations, calls, upload, link_sends, phone_check, fidelidade, elsewhere>>

(* -------------------------- upload_premium ----------------------------- *)
\* lines 205-229: look the order up, validate, suspend on the first file.read()
UploadStart(token, recipient_phone, named_files) ==
    /\ upload.pc = "idle"
    /\ LET order == get_order_by_token(token)
       IN IF ~order.exists
          THEN /\ lastResp' = Respond("upload", token, "404", "Order not found")
               /\ UNCHANGED upload
          ELSE IF order.status \in {"submitted", "delivered"}
          THEN /\ lastResp' = Respond("upload", token, "400", "Already submitted")
               /\ UNCHANGED upload
          ELSE IF ~phone_valid[recipient_phone]
          THEN /\ lastResp' = Respond("upload", token, "400", "Telefone invalido")
               /\ UNCHANGED upload
          \* no file has a name: the loop never suspends and slides stays empty
          ELSE IF ~named_files
          THEN /\ lastResp' = Respond("upload", token, "400", "Nenhuma imagem enviada")
               /\ UNCHANGED upload
          ELSE /\ upload' = [pc |-> "read", token |-> token,
                             phone |-> recipient_clean_of[recipient_phone]]
               /\ lastResp' = NoResp
    /\ UNCHANGED <<clock, orders, messages, presentations, calls, sweep, trace,
                   link_sends, phone_check, fidelidade, elsewhere>>

\* the check of line 240 dropped
not_slides_ignored(stored) == FALSE

\* line 240: no image was stored (upload_image returned None for every file)
not_slides(stored) == ~stored

\* lines 229-282: the files are read and uploaded; with at least one slide
\* the presentation is created, the order is set to "submitted", a message
\* row is stored, and the call of deliver_premium with three arguments
\* (the method takes two) raises TypeError, answered with a 500
UploadFinish(stored, created) ==
    /\ upload.pc = "read"
    /\ LET token == upload.token
       IN IF not_slides(stored)
          THEN /\ lastResp' = Respond("upload", token, "400", "Nenhuma imagem enviada")
               /\ UNCHANGED <<orders, messages, presentations, trace>>
          ELSE IF ~created
          THEN /\ lastResp' = Respond("upload", token, "500",
                                      "Falha ao criar apresentacao")
               /\ UNCHANGED <<orders, messages, presentations, trace>>
          ELSE /\ presentations' = [presentations EXCEPT ![token] = @ + 1]
               /\ orders' = [orders EXCEPT ![token].recipient_phone = upload.phone,
                                           ![token].status = "submitted"]
               /\ messages' = Append(messages,
                      [order_id |-> token, message_index |-> 0,
                       scheduled_at |-> {}, delivered |-> FALSE])
               /\ trace' = Append(trace, [future |-> FALSE, inline |-> FALSE,
                                          inline_ok |-> FALSE, sweep_sends |-> 0])
               /\ lastResp' = Respond("upload", token, "500", "TypeError")
    /\ upload' = IdleUpload
    /\ UNCHANGED <<clock, calls, sweep, link_sends, phone_check, fidelidade, elsewhere>>

(* ------------------------------ webhook -------------------------------- *)
\* event names are sequences of characters
approved_events ==
    <<<<"s", "a", "l", "e", ".", "a", "p", "p", "r", "o", "v", "e", "d">>,
      <<"s", "a", "l", "e", ".", "c", "o", "m", "p", "l", "e", "t", "e", "d">>,
      <<"a", "p", "p", "r", "o", "v", "e", "d">>,
      <<"c", "o", "m", "p", "l", "e", "t", "e", "d">>,
      <<"p", "a", "i", "d">>>>

\* str.lower on the letters that occur in the events below
lower(event) ==
    [k \in 1..Len(event) |->
        CASE event[k] = "A" -> "a"
          [] event[k] = "D" -> "d"
          [] event[k] = "I" -> "i"
          [] event[k] = "P" -> "p"
          [] OTHER -> event[k]]

\* e in event_lower, for strings
Contains(text, e) ==
    \E k \in 0..(Len(text) - Len(e)) : SubSeq(text, k + 1, k + Len(e)) = e

\* the filter dropped: every event is processed
is_approved_always(event) == TRUE

\* lines 37-38
is_approved(event) ==
    \E k \in 1..Len(approved_events) : Contains(lower(event), approved_events[k])

\* CupidoService.create_order_from_webhook, lines 63-95: the order row is
\* inserted with status "approved" and two texts (greeting, form link) are
\* sent to the buyer; the outcome of the sends is not looked at
CreateOrder(token, plan) ==
    /\ ~orders[token].exists
    /\ orders' = [orders EXCEPT ![token] =
            [exists |-> TRUE, plan |-> plan, status |-> "approved",
             messages_sent |-> 0, recipient_phone |-> NoPhone,
             delivered_at |-> FALSE]]
    /\ link_sends' = link_sends + 2

\* POST /webhook/lowify for a payload without sale_id: token is the form
\* token the store gives the new row, plan the plan resolve_plan finds
webhook_lowify(event, has_buyer_phone, token, plan, created) ==
    /\ IF ~is_approved(event)
       THEN /\ lastResp' = Respond("webhook", UnknownToken, "ignored", "none")
            /\ UNCHANGED <<orders, link_sends>>
       ELSE IF ~has_buyer_phone \/ ~created
       THEN /\ lastResp' = Respond("webhook", UnknownToken, "500",
                                   "Failed to create order")
            /\ UNCHANGED <<orders, link_sends>>
       ELSE /\ CreateOrder(token, plan)
            /\ lastResp' = Respond("webhook", token, "ok", "none")
    /\ UNCHANGED <<clock, messages, presentations, calls, upload, sweep, trace,
                   phone_check, fidelidade, elsewhere>>

(* --------------------------- specifications ---------------------------- *)
SaleApproved == <<"s", "a", "l", "e", ".", "a", "p", "p", "r", "o", "v", "e", "d">>

\* an approved payment with a buyer phone, stored
Webhook ==
    \E t \in Tokens, p \in PlanTypes : webhook_lowify(SaleApproved, TRUE, t, p, TRUE)

\* message rows stored or about to be stored by a request in flight
Pending ==
    Len(messages) + Cardinality({c \in Calls : calls[c].pc = "json"})
        + (IF upload.pc = "read" THEN 1 ELSE 0)

Submit ==
    \E c \in Calls, t \in Tokens \cup {UnknownToken} : SubmitStart(c, t)

Body ==
    \E c \in Calls, ph \in PhoneInputs, e \in BOOLEAN, a \in BOOLEAN,
       s \in SchedInputs, sv \in BOOLEAN : SubmitBody(c, ph, e, a, s, sv)

InlineReturn == \E c \in Calls, ok \in BOOLEAN : SubmitDeliver(c, ok)

Upload ==
    \E t \in Tokens \cup {UnknownToken}, ph \in PhoneInputs, n \in BOOLEAN :
        UploadStart(t, ph, n)

UploadDone == \E st \in BOOLEAN, cr \in BOOLEAN : UploadFinish(st, cr)

SweepReturn == \E ok \in BOOLEAN : SweepDeliver(ok)

Next ==
    \/ Tick
    \/ Webhook
    \/ Pending < MaxStored /\ Submit
    \/ Body
    \/ InlineReturn
    \/ Pending < MaxStored /\ Upload
    \/ UploadDone
    \/ SweepStart
    \/ SweepReturn

Spec == Init /\ [][Next]_vars

\* nothing is suspended at an await
Quiet ==
    /\ \A c \in Calls : calls[c].pc = "idle"
    /\ upload.pc = "idle"
    /\ sweep.pc = "idle"

\* one operation at a time: a request or a sweep starts only when nothing
\* else is in flight
SeqNext ==
    \/ Tick
    \/ Webhook
    \/ Quiet /\ Pending < MaxStored /\ Submit
    \/ Body
    \/ InlineReturn
    \/ Quiet /\ Pending < MaxStored /\ Upload
    \/ UploadDone
    \/ Quiet /\ SweepStart
    \/ SweepReturn

SpecSeq == Init /\ [][SeqNext]_vars

\* the scenario of plain submissions: one request at a time, no scheduled_at,
\* no premium upload (so no sweep has anything to deliver)
PlainBody ==
    \E c \in Calls, ph \in PhoneInputs, e \in BOOLEAN, a \in BOOLEAN, sv \in BOOLEAN :
        SubmitBody(c, ph, e, a, [kind |-> "absent", t |-> 0], sv)

PlainNext ==
    \/ Webhook
    \/ Quiet /\ Submit
    \/ PlainBody
    \/ InlineReturn

SpecPlain == Init /\ [][PlainNext]_vars

\* the message whose transport call the sweep is suspended in (0: none)
SweepingId == IF sweep.batch = <<>> THEN 0 ELSE sweep.batch[1].id

\* the scheduler keeps ticking (interval job), a transport call returns, and
\* the transport eventually succeeds for a message that keeps being retried
Fairness ==
    /\ WF_vars(SweepStart)
    /\ WF_vars(SweepReturn)
    /\ \A i \in 1..MaxFairStored :
          SF_vars(SweepingId = i /\ SweepDeliver(TRUE))

\* the same operations, with fewer stored messages
FairNext ==
    \/ Tick
    \/ Webhook
    \/ Pending < MaxFairStored /\ Submit
    \/ Body
    \/ InlineReturn
    \/ Pending < MaxFairStored /\ Upload
    \/ UploadDone
    \/ SweepStart
    \/ SweepReturn

FairSpec == Init /\ [][FairNext]_vars /\ Fairness

(* ------------------------------- claims -------------------------------- *)
Orders == {t \in Tokens : orders[t].exists}
MessagesOf(t) == get_messages_by_order(messages, t)
\* messages of an order stored by submit_form whose request was answered
\* "ok" or "scheduled", and those whose inline delivery failed (500)
AcceptedOf(t) ==
    {i \in MessagesOf(t) : (~trace[i].inline /\ messages[i].scheduled_at # {})
                           \/ trace[i].inline_ok}
Delivering == {calls[c].msg : c \in {d \in Calls : calls[d].pc = "deliver"}}
FailedOf(t) ==
    {i \in MessagesOf(t) : trace[i].inline /\ ~trace[i].inline_ok /\ i \notin Delivering}
BatchIds == {sweep.batch[k].id : k \in 1..Len(sweep.batch)}
Sends(i) == (IF trace[i].inline_ok THEN 1 ELSE 0) + trace[i].sweep_sends

Rank(status) ==
    CASE status = "none" -> 0
      [] status = "approved" -> 1
      [] status = "submitted" -> 2
      [] status = "delivered" -> 3

\* C1: in every reachable state, messages_sent of every order is at most
\* max_messages of its plan, whatever the interleaving of submissions and sweeps
C1_QuotaNeverExceeded ==
    \A t \in Orders : orders[t].messages_sent <= max_messages(orders[t].plan)

\* two interleaved submissions both stored a message for an order at its quota
C1_Witness ==
    \E t \in Orders :
        /\ orders[t].messages_sent = max_messages(orders[t].plan)
        /\ Cardinality(MessagesOf(t)) >= 2
        /\ Quiet

C3_FutureNeverInlineNorEarly ==
    /\ [](\A i \in MsgIds : trace[i].future =>
            /\ ~trace[i].inline /\ ~trace[i].inline_ok
            /\ i \notin Delivering
            /\ (\A s \in messages[i].scheduled_at : clock < s) =>
                  /\ ~messages[i].delivered
                  /\ trace[i].sweep_sends = 0
                  /\ i \notin BatchIds)
    /\ [][Len(messages') > Len(messages) /\ trace'[Len(messages')].future
            => lastResp'.code = "scheduled"]_vars

\* a future message was delivered by a sweep once its time had come
C3_Witness ==
    \E i \in MsgIds :
        /\ trace[i].future
        /\ messages[i].delivered
        /\ trace[i].sweep_sends = 1

FutureMsg(i) == IF i \in MsgIds THEN trace[i].future ELSE FALSE
DueMsg(i) == IF i \in MsgIds THEN \A s \in messages[i].scheduled_at : s <= clock ELSE FALSE
DeliveredMsg(i) == IF i \in MsgIds THEN messages[i].delivered ELSE FALSE

\* C4: a message submitted with a future scheduled_at is, once the clock has
\* reached scheduled_at, eventually delivered by a sweep, and it never gets a
\* second successful transport send
C4_ScheduledDeliveredExactlyOnce ==
    /\ [](\A i \in MsgIds : trace[i].future => Sends(i) <= 1 /\ ~trace[i].inline_ok)
    /\ \A i \in 1..MaxFairStored :
          (FutureMsg(i) /\ DueMsg(i)) ~> (DeliveredMsg(i) /\ trace[i].sweep_sends = 1)

\* a due future message is still waiting for its sweep
C4_Witness ==
    \E i \in MsgIds :
        /\ trace[i].future
        /\ \A s \in messages[i].scheduled_at : s <= clock
        /\ ~messages[i].delivered
        /\ i \in BatchIds

\* C5: a message submitted through submit_form with no scheduled_at, or one
\* that is not in the future, goes to inline delivery and is never selected or
\* delivered by a sweep
C5_InlineNeverSwept ==
    \A i \in MsgIds :
        (trace[i].inline \/ (messages[i].scheduled_at # {} /\ ~trace[i].future)) =>
            /\ trace[i].inline
            /\ i \notin BatchIds
            /\ trace[i].sweep_sends = 0

\* C6: with nothing in flight, an order that has messages is "delivered"
\* exactly when all of its messages have delivered = true
C6_DeliveredIffAllDelivered ==
    Quiet => \A t \in Orders :
        MessagesOf(t) # {} =>
            (orders[t].status = "delivered" <=> AllDelivered(messages, t))

\* C7: a multi_mensagem order that took five sequential submissions, each
\* without scheduled_at and with a successful transport send, is "delivered"
\* with messages_sent = 5 and five delivered messages
C7_FivePlainSubmissions ==
    \A t \in Orders :
        /\ orders[t].plan = "multi_mensagem"
        /\ Quiet
        /\ Cardinality(MessagesOf(t)) = 5
        /\ \A i \in MessagesOf(t) : trace[i].inline_ok /\ messages[i].scheduled_at = {}
        => /\ orders[t].status = "delivered"
           /\ orders[t].messages_sent = 5
           /\ \A i \in MessagesOf(t) : messages[i].delivered
           /\ \A k \in 0..4 : \E i \in MessagesOf(t) : messages[i].message_index = k

C7_Witness ==
    \E t \in Orders :
        /\ orders[t].plan = "multi_mensagem"
        /\ Quiet
        /\ Cardinality(MessagesOf(t)) = 5
        /\ \A i \in MessagesOf(t) : trace[i].inline_ok /\ messages[i].scheduled_at = {}
        /\ orders[t].status = "delivered"

\* C8: a message is marked delivered only after a successful transport send
\* for it, and no message gets more than one successful transport send
\* across the inline delivery and all sweeps
C8_DeliveredAfterOneSend ==
    \A i \in MsgIds :
        /\ messages[i].delivered => Sends(i) >= 1
        /\ Sends(i) <= 1

\* C9: the status of an order never moves backwards in
\* approved < submitted < delivered
C9_StatusMonotonic ==
    [][\A t \in Tokens : Rank(orders'[t].status) >= Rank(orders[t].status)]_vars

\* C10: no two messages of one order have the same message_index
C10_UniqueIndex ==
    \A i, j \in MsgIds :
        i # j /\ messages[i].order_id = messages[j].order_id
            => messages[i].message_index # messages[j].message_index

\* a step of upload_premium on an order open for upload, with a valid phone,
\* that ends with zero stored images: no file has a name, or no image upload
\* returned a URL
ZeroImagesUpload ==
    \/ \E t \in Tokens, ph \in PhoneInputs :
          /\ get_order_by_token(t).exists
          /\ get_order_by_token(t).status \notin {"submitted", "delivered"}
          /\ phone_valid[ph]
          /\ UploadStart(t, ph, FALSE)
    \/ \E cr \in BOOLEAN : UploadFinish(FALSE, cr)

\* C11: a premium upload that ends with zero stored images is answered 400,
\* creates no presentation row and no message row, and leaves the order rows
\* (status, recipient phone) as they were
C11_ZeroImagesRejected ==
    [][ZeroImagesUpload =>
          /\ lastResp'.op = "upload"
          /\ lastResp'.code = "400"
          /\ lastResp'.error = "Nenhuma imagem enviada"
          /\ presentations' = presentations
          /\ messages' = messages
          /\ orders' = orders]_vars

\* an upload whose images all failed to store was just answered
C11_Witness ==
    \E t \in Orders :
        /\ lastResp = Respond("upload", t, "400", "Nenhuma imagem enviada")
        /\ upload = IdleUpload
        /\ orders[t].status = "approved"
        /\ presentations[t] = 0
        /\ MessagesOf(t) = {}

\* a step of submit_form whose body is valid and carries synthesis text, for an
\* order of an audio-capable plan (the message would be stored)
AudioSubmission ==
    \E c \in Calls, ph \in PhoneInputs, sc \in SchedInputs :
        /\ calls[c].pc = "json"
        /\ has_audio(orders[calls[c].token].plan)
        /\ phone_valid[ph]
        /\ sc.kind # "invalid"
        /\ SubmitBody(c, ph, FALSE, TRUE, sc, TRUE)

\* C12: a message that carries synthesis text on an audio-capable plan is
\* accepted and goes to delivery whatever the synthesis gateway does: the
\* text is sent through the transport, the message is marked delivered and no
\* error is surfaced to the caller
C12_AudioBestEffort ==
    [][AudioSubmission =>
          /\ Len(messages') = Len(messages) + 1
          /\ lastResp'.code \notin {"400", "500"}]_vars

(* --------------------------- payment webhook --------------------------- *)
Events ==
    {<<"s", "a", "l", "e", ".", "a", "p", "p", "r", "o", "v", "e", "d">>,
     <<"P", "A", "I", "D">>,
     <<"c", "o", "m", "p", "l", "e", "t", "e", "d">>,
     <<"u", "n", "p", "a", "i", "d">>,
     <<"s", "a", "l", "e", ".", "r", "e", "f", "u", "n", "d", "e", "d">>,
     <<"c", "a", "n", "c", "e", "l", "e", "d">>,
     <<"p", "e", "n", "d", "i", "n", "g">>,
     <<>>}

AnyWebhook ==
    \E e \in Events, hp \in BOOLEAN, t \in Tokens, p \in PlanTypes, cr \in BOOLEAN :
        webhook_lowify(e, hp, t, p, cr)

\* every payment event, and plain submissions one at a time
WebhookNext ==
    \/ AnyWebhook
    \/ Quiet /\ Submit
    \/ PlainBody
    \/ InlineReturn

SpecWebhook == Init /\ [][WebhookNext]_vars

\* the events of Events whose lower-cased name contains "approved",
\* "completed" or "paid" ("sale.approved" and "sale.completed" contain them)
KeywordEvents ==
    {<<"s", "a", "l", "e", ".", "a", "p", "p", "r", "o", "v", "e", "d">>,
     <<"P", "A", "I", "D">>,
     <<"c", "o", "m", "p", "l", "e", "t", "e", "d">>,
     <<"u", "n", "p", "a", "i", "d">>}

\* C13: an order row appears only in a webhook step for an event that matches
\* a keyword; a webhook step for any other event is answered 200 "ignored",
\* creates no order and sends nothing to the buyer
C13_OnlyApprovedEventsCreate ==
    [][/\ Orders' # Orders =>
            \E e \in KeywordEvents, t \in Tokens, p \in PlanTypes :
                webhook_lowify(e, TRUE, t, p, TRUE)
       /\ link_sends' # link_sends => Orders' # Orders
       /\ \A e \in Events \ KeywordEvents :
            (\E hp \in BOOLEAN, t \in Tokens, p \in PlanTypes, cr \in BOOLEAN :
                webhook_lowify(e, hp, t, p, cr))
            => /\ lastResp' = Respond("webhook", UnknownToken, "ignored", "none")
               /\ orders' = orders
               /\ link_sends' = link_sends]_vars

\* an event outside the list was just ignored, before any order existed
C13_Witness ==
    /\ lastResp = Respond("webhook", UnknownToken, "ignored", "none")
    /\ Orders = {}
    /\ link_sends = 0

(* ------------------------------ validators ----------------------------- *)
MaxDigits == 16

DigitAt(k) == <<"1", "2", "3", "4", "5", "6", "7", "8", "9", "0">>[((k - 1) % 10) + 1]
\* n digits, bare
Digits(n) == [k \in 1..n |-> DigitAt(k)]
\* n digits, each followed by a punctuation character
Punctuated(n) ==
    [k \in 1..(2 * n) |-> IF k % 2 = 1 THEN DigitAt((k + 1) \div 2)
                          ELSE <<"-", " ", "(", ")", "+">>[((k \div 2) % 5) + 1]]

PhoneStrings ==
    RequestPhones
        \cup {Digits(n) : n \in 0..MaxDigits}
        \cup {Punctuated(n) : n \in 0..MaxDigits}
        \cup {Digits(n) \o WhatsAppNet : n \in 0..MaxDigits}
        \cup {WhatsAppCUs \o Digits(n) \o WhatsAppCUs : n \in 0..MaxDigits}

InitPhone ==
    /\ clock = 0
    /\ orders = [t \in Tokens |-> NoOrder]
    /\ messages = <<>>
    /\ presentations = [t \in Tokens |-> 0]
    /\ calls = [c \in Calls |-> IdleCall]
    /\ upload = IdleUpload
    /\ sweep = IdleSweep
    /\ lastResp = NoResp
    /\ trace = <<>>
    /\ link_sends = 0
    /\ phone_check \in {[pc |-> "input", phone |-> ph, valid |-> FALSE,
                         clean |-> NoPhone] : ph \in PhoneStrings}
    /\ fidelidade_tests = <<>>
    /\ fidelidade_messages = <<>>
    /\ fidelidade_out = NoOut
    /\ audio = IdleAudio
    /\ sweep2 = IdleSweep2
    /\ webhooks = [w \in WebhookCalls |-> IdleWebhook]
    /\ sale_id_of = [t \in Tokens |-> NoSale]

\* the two validators are applied to the phone
CheckPhone ==
    /\ phone_check.pc = "input"
    /\ phone_check' = [pc |-> "done", phone |-> phone_check.phone,
                       valid |-> validate_phone(phone_check.phone),
                       clean |-> clean_phone_for_whatsapp(phone_check.phone)]
    /\ UNCHANGED <<clock, orders, messages, presentations, calls, upload, sweep,
                   lastResp, trace, link_sends, fidelidade, elsewhere>>

SpecPhone == InitPhone /\ [][CheckPhone]_vars

\* the digits of a phone, whatever stands between them
DigitCount(phone) == Cardinality({k \in 1..Len(phone) : phone[k] \in Digit})

\* C14: validate_phone accepts a phone exactly when it holds between 10 and 15
\* digits; "+55 (85) 99999-9999" is accepted and cleaned to "5585999999999";
\* "123" is rejected
C14_PhoneValidation ==
    phone_check.pc = "done" /\ phone_check # NoCheck =>
        /\ phone_check.valid <=>
              (10 <= DigitCount(phone_check.phone) /\ DigitCount(phone_check.phone) <= 15)
        /\ phone_check.phone = PhoneFormatted =>
              /\ phone_check.valid
              /\ phone_check.clean = <<"5", "5", "8", "5", "9", "9", "9", "9", "9", "9", "9", "9", "9">>
        /\ phone_check.phone = PhoneShort => ~phone_check.valid

\* the formatted phone of the example went through the validators
C14_Witness ==
    /\ phone_check.pc = "done"
    /\ phone_check.phone = PhoneFormatted
    /\ phone_check.valid

\* a step of submit_form whose body carries synthesis text and is otherwise
\* acceptable: valid phone, non-empty message, no unparseable scheduled_at,
\* and the store accepts the message
TextSubmission ==
    \E c \in Calls, ph \in PhoneInputs, sc \in SchedInputs :
        /\ calls[c].pc = "json"
        /\ phone_valid[ph]
        /\ sc.kind # "invalid"
        /\ SubmitBody(c, ph, FALSE, TRUE, sc, TRUE)

\* C15: a submission with synthesis text is either rejected with a 400 that
\* stores no message (text longer than the plan's limit) or not rejected on
\* account of the text, so that its message is stored (text within the limit,
\* or a plan without limit)
C15_AudioTextLimit ==
    [][TextSubmission =>
          \/ lastResp'.code = "400" /\ messages' = messages
          \/ /\ Len(messages') = Len(messages) + 1
             /\ lastResp'.error \notin {"AttributeError"}]_vars

(* --------------------------- fidelity test ----------------------------- *)
MaxTests == 1
MaxFidMessages == 2
HoursPerTick == 48
ACCESS_DURATION_HOURS == 48

Users == {"u1", "u2"}
TestIds == 1..(MaxTests + 1)
FirstMessage == <<"o", "l", "a">>
SentContent == <<"t", "u", "d", "o", " ", "b", "e", "m">>
Replies == {<<"o", "i">>, <<"s", "a", "u", "d", "a", "d", "e">>}

\* datetime.now(timezone.utc), in hours
utcnow == clock * HoursPerTick

get_test(test_id) ==
    IF test_id \in 1..Len(fidelidade_tests) THEN <<fidelidade_tests[test_id]>>
    ELSE <<>>

\* the comparison with expires_at dropped
is_test_active_unexpired(test, now) ==
    /\ test.status = "active"
    /\ test.expires_at # {}

\* FidelidadeService.is_test_active
is_test_active(test, now) ==
    /\ test.status = "active"
    /\ test.expires_at # {}
    /\ \A expires \in test.expires_at : now < expires

_expire_test(tests, test_id) == [tests EXCEPT ![test_id].status = "expired"]

Out(op, success, error) ==
    [op |-> op, success |-> success, error |-> error, sent |-> FALSE,
     blurred |-> FALSE, contents |-> <<>>]

\* lines 271-276: the first three characters, then block characters ("#")
blur(content) ==
    IF Len(content) > 3
    THEN SubSeq(content, 1, 3)
            \o [k \in 1..(IF Len(content) - 3 < 30 THEN Len(content) - 3 ELSE 30) |-> "#"]
    ELSE [k \in 1..10 |-> "#"]

\* FidelidadeService.create_test: the row is inserted as "pending" and the
\* first message is sent to the target and recorded
create_test(user_id) ==
    /\ Len(fidelidade_tests) < MaxTests
    /\ Len(fidelidade_messages) < MaxFidMessages
    /\ fidelidade_tests' = Append(fidelidade_tests,
            [user_id |-> user_id, status |-> "pending", expires_at |-> {}])
    /\ fidelidade_messages' = Append(fidelidade_messages,
            [test_id |-> Len(fidelidade_tests) + 1, direction |-> "outbound",
             content |-> FirstMessage])
    /\ fidelidade_out' = Out("create_test", TRUE, "none")

\* FidelidadeService.activate_test_by_email, for the user of the email: the
\* most recent pending test becomes active for ACCESS_DURATION_HOURS
activate_test_by_email(user_id) ==
    LET pending == {i \in 1..Len(fidelidade_tests) :
                        /\ fidelidade_tests[i].user_id = user_id
                        /\ fidelidade_tests[i].status = "pending"}
    IN /\ IF pending = {}
          THEN /\ fidelidade_out' = Out("activate", FALSE, "Nenhum teste pendente")
               /\ UNCHANGED fidelidade_tests
          ELSE LET id == CHOOSE i \in pending : \A j \in pending : j <= i
               IN /\ fidelidade_tests' = [fidelidade_tests EXCEPT
                        ![id].status = "active",
                        ![id].expires_at = {utcnow + ACCESS_DURATION_HOURS}]
                  /\ fidelidade_out' = Out("activate", TRUE, "none")
       /\ UNCHANGED fidelidade_messages

\* FidelidadeService.handle_inbound_message: a reply of the target is stored
\* on the most recent pending or active test
handle_inbound_message(content) ==
    LET open == {i \in 1..Len(fidelidade_tests) :
                      fidelidade_tests[i].status \in {"pending", "active"}}
    IN /\ Len(fidelidade_messages) < MaxFidMessages
       /\ IF open = {}
          THEN /\ fidelidade_out' = Out("inbound", FALSE, "Nenhum teste encontrado")
               /\ UNCHANGED fidelidade_messages
          ELSE /\ fidelidade_messages' = Append(fidelidade_messages,
                      [test_id |-> CHOOSE i \in open : \A j \in open : j <= i,
                       direction |-> "inbound", content |-> content])
               /\ fidelidade_out' = Out("inbound", TRUE, "none")
       /\ UNCHANGED fidelidade_tests

\* the rows of a test, in order
MessagesOfTest(test_id) ==
    SelectSeq(fidelidade_messages, LAMBDA m : m.test_id = test_id)

\* FidelidadeService.get_messages
get_messages(test_id, user_id) ==
    /\ IF get_test(test_id) = <<>>
       THEN /\ fidelidade_out' = Out("get_messages", FALSE, "Teste nao encontrado")
            /\ UNCHANGED fidelidade_tests
       ELSE LET test == get_test(test_id)[1]
                active == is_test_active(test, utcnow)
                rows == MessagesOfTest(test_id)
            IN IF test.user_id # user_id
               THEN /\ fidelidade_out' = Out("get_messages", FALSE, "Acesso negado")
                    /\ UNCHANGED fidelidade_tests
               ELSE /\ fidelidade_tests' =
                          IF test.status = "active" /\ ~active
                          THEN _expire_test(fidelidade_tests, test_id)
                          ELSE fidelidade_tests
                    /\ fidelidade_out' =
                          [op |-> "get_messages", success |-> TRUE, error |-> "none",
                           sent |-> FALSE, blurred |-> ~active,
                           contents |-> [k \in 1..Len(rows) |->
                                            IF ~active THEN blur(rows[k].content)
                                            ELSE rows[k].content]]
    /\ UNCHANGED fidelidade_messages

\* FidelidadeService.send_message; transport_ok is the outcome of send_text
send_message(test_id, user_id, transport_ok) ==
    /\ Len(fidelidade_messages) < MaxFidMessages
    /\ IF get_test(test_id) = <<>>
       THEN /\ fidelidade_out' = Out("send_message", FALSE, "Teste nao encontrado")
            /\ UNCHANGED fidelidade_messages
       ELSE IF get_test(test_id)[1].user_id # user_id
       THEN /\ fidelidade_out' = Out("send_message", FALSE, "Acesso negado")
            /\ UNCHANGED fidelidade_messages
       ELSE IF ~is_test_active(get_test(test_id)[1], utcnow)
       THEN /\ fidelidade_out' = Out("send_message", FALSE,
                                     "Teste nao esta ativo ou expirou")
            /\ UNCHANGED fidelidade_messages
       ELSE IF ~transport_ok
       THEN /\ fidelidade_out' = [Out("send_message", FALSE, "Falha ao enviar mensagem")
                                     EXCEPT !.sent = TRUE]
            /\ UNCHANGED fidelidade_messages
       ELSE /\ fidelidade_messages' = Append(fidelidade_messages,
                  [test_id |-> test_id, direction |-> "outbound",
                   content |-> SentContent])
            /\ fidelidade_out' = [Out("send_message", TRUE, "none") EXCEPT !.sent = TRUE]
    /\ UNCHANGED fidelidade_tests

Cupido == <<orders, messages, presentations, calls, upload, sweep, lastResp,
            trace, link_sends, phone_check, elsewhere>>

FidTick == Tick
CreateTest == \E u \in Users : create_test(u) /\ UNCHANGED <<clock, Cupido>>
Activate == \E u \in Users : activate_test_by_email(u) /\ UNCHANGED <<clock, Cupido>>
Inbound == \E r \in Replies : handle_inbound_message(r) /\ UNCHANGED <<clock, Cupido>>
GetMessages ==
    \E i \in TestIds, u \in Users : get_messages(i, u) /\ UNCHANGED <<clock, Cupido>>
SendMessage ==
    \E i \in TestIds, u \in Users, ok \in BOOLEAN :
        send_message(i, u, ok) /\ UNCHANGED <<clock, Cupido>>

FidelidadeNext ==
    \/ FidTick
    \/ CreateTest
    \/ Activate
    \/ Inbound
    \/ GetMessages
    \/ SendMessage

SpecFidelidade == Init /\ [][FidelidadeNext]_vars

\* the test is the user's, it is paid for, and its access window is open
InWindow(test_id, user_id) ==
    /\ test_id \in 1..Len(fidelidade_tests)
    /\ fidelidade_tests[test_id].user_id = user_id
    /\ fidelidade_tests[test_id].status = "active"
    /\ \E expires \in fidelidade_tests[test_id].expires_at : utcnow < expires

\* the call returned the content of a stored message as it is stored
Readable(out, test_id) ==
    /\ out.success
    /\ \/ ~out.blurred
       \/ \E k \in 1..Len(out.contents) :
             out.contents[k] = MessagesOfTest(test_id)[k].content

\* C16: send_message hands a text to the transport, and get_messages returns
\* unblurred content, only for a test of the calling user with status "active"
\* and the clock before expires_at
C16_ActiveWindowOnly ==
    [][\A i \in TestIds, u \in Users :
          /\ (\E ok \in BOOLEAN : send_message(i, u, ok)) /\ fidelidade_out'.sent
                => InWindow(i, u)
          /\ get_messages(i, u) /\ Readable(fidelidade_out', i)
                => InWindow(i, u)]_vars

\* the owner of an active test has just read a reply of the target unblurred
C16_Witness ==
    /\ fidelidade_out.op = "get_messages"
    /\ fidelidade_out.success
    /\ ~fidelidade_out.blurred
    /\ \E k \in 1..Len(fidelidade_out.contents) : fidelidade_out.contents[k] \in Replies

\* the messages of the running sweep: those processed, then those to come
SweepIds ==
    [k \in 1..Len(sweep.tried) |-> sweep.tried[k].id]
        \o [k \in 1..Len(sweep.batch) |-> sweep.batch[k].id]

\* C17: a sweep starts with the rows of the query, no message twice; whatever
\* the outcome for the row being processed, the sweep goes on with exactly the
\* rows after it, and it ends only after the last row
C17_SweepIsolatesFailures ==
    /\ [](\A j, k \in 1..Len(SweepIds) : j # k => SweepIds[j] # SweepIds[k])
    /\ [][/\ sweep.pc = "idle" /\ sweep'.pc = "deliver" =>
                /\ sweep'.batch = get_pending_scheduled_messages(clock)
                /\ sweep'.tried = <<>>
          /\ sweep.pc = "deliver" /\ sweep' # sweep =>
                IF Len(sweep.batch) = 1 THEN sweep' = IdleSweep
                ELSE /\ sweep'.pc = "deliver"
                     /\ sweep'.batch = Tail(sweep.batch)
                     /\ Len(sweep'.tried) = Len(sweep.tried) + 1
                     /\ sweep'.tried[Len(sweep'.tried)].id = sweep.batch[1].id
                     /\ SweepIds' = SweepIds]_vars

\* after a failed delivery the sweep is delivering the next message of the batch
C17_Witness ==
    /\ sweep.pc = "deliver"
    /\ \E k \in 1..Len(sweep.tried) : ~sweep.tried[k].ok
    /\ sweep.batch # <<>>

\* the sweep has just delivered message i with a successful transport send
SweptNow(i) ==
    /\ sweep.pc = "deliver"
    /\ sweep.batch[1].id = i
    /\ trace'[i].sweep_sends = trace[i].sweep_sends + 1

\* C18: when a sweep has delivered a message, the order of the message is set
\* to "delivered" with delivered_at if none of its messages is left with
\* delivered = false, and the order row is left as it was otherwise
C18_SweepCompletesOrder ==
    [][\A i \in MsgIds : SweptNow(i) =>
          LET t == messages[i].order_id
          IN IF \A j \in MessagesOf(t) : messages'[j].delivered
             THEN /\ orders'[t].status = "delivered"
                  /\ orders'[t].delivered_at
             ELSE orders'[t] = orders[t]]_vars

\* a sweep delivered one message of an order that has another one undelivered
C18_Witness ==
    \E t \in Orders : \E i, j \in MessagesOf(t) :
        /\ trace[i].sweep_sends = 1
        /\ messages[i].delivered
        /\ ~messages[j].delivered
        /\ orders[t].status = "approved"

\* the step answers a submit_form call for order t whose message was stored
\* and counted: "ok", "scheduled", or the 500 of a failed inline delivery
CountedSubmission(t) ==
    /\ lastResp'.op = "submit"
    /\ lastResp'.token = t
    /\ \/ lastResp'.code \in {"ok", "scheduled"}
       \/ lastResp'.error = "Falha ao enviar mensagem"

\* C19: when submit_form has counted a message of an approved order, the
\* order has left "approved" if messages_sent has reached the plan maximum
\* (it is "submitted", or already "delivered"), and it is still "approved" if
\* messages_sent is below the maximum, for a scheduled and for an inline message
C19_SubmittedAtMaximum ==
    [][\A t \in Orders :
          CountedSubmission(t) /\ orders[t].status = "approved" =>
              IF orders'[t].messages_sent >= max_messages(orders[t].plan)
              THEN orders'[t].status \in {"submitted", "delivered"}
              ELSE orders'[t].status = "approved"]_vars

\* C20: an upload that stored an image and created its presentation is
\* answered with the outcome of the transport send of the link: "ok" with the
\* order "delivered", or the 500 "Falha ao enviar" with the order "submitted"
C20_PremiumDelivered ==
    [][\A t \in Tokens :
          upload.pc = "read" /\ upload.token = t /\ presentations'[t] > presentations[t] =>
              \/ /\ lastResp' = Respond("upload", t, "ok", "none")
                 /\ orders'[t].status = "delivered"
              \/ /\ lastResp' = Respond("upload", t, "500", "Falha ao enviar")
                 /\ orders'[t].status = "submitted"]_vars

(* --------------------------- audio sub-flow ---------------------------- *)
MaxAudioIndex == 3

\* the file is removed whatever send_audio returned
cleanup_always(files, path, success) == files \ {path}

\* lines 94-99: delete_file only after a successful send
cleanup(files, path, success) == IF success THEN files \ {path} ELSE files

\* lines 73-79: the call is made for a message of the order and suspends in
\* generate_audio
AudioStart(message_index) ==
    /\ audio.pc = "idle"
    /\ audio' = [audio EXCEPT !.pc = "generate", !.path = message_index,
                              !.log = <<>>, !.send_ok = FALSE]
    /\ UNCHANGED <<core, sweep2, webhooks, sale_id_of>>

\* lines 79-92: generate_audio returns (bytes, or None); with bytes the file
\* is uploaded (a URL, or None), and with a URL the call suspends in send_audio
AudioGenerated(audio_bytes, public_url) ==
    /\ audio.pc = "generate"
    /\ audio' =
          IF ~audio_bytes
          THEN [audio EXCEPT !.pc = "idle", !.log = <<"generate">>]
          ELSE IF ~public_url
          THEN [audio EXCEPT !.pc = "idle", !.log = <<"generate", "upload">>]
          ELSE [audio EXCEPT !.pc = "send", !.log = <<"generate", "upload">>,
                             !.files = @ \cup {audio.path}]
    /\ UNCHANGED <<core, sweep2, webhooks, sale_id_of>>

\* lines 92-101: send_audio returns; the file is deleted after a success
AudioSent(success) ==
    /\ audio.pc = "send"
    /\ audio' = [audio EXCEPT
            !.pc = "idle",
            !.send_ok = success,
            !.files = cleanup(@, audio.path, success),
            !.log = IF cleanup(audio.files, audio.path, success) # audio.files
                    THEN @ \o <<"send", "delete">> ELSE @ \o <<"send">>]
    /\ UNCHANGED <<core, sweep2, webhooks, sale_id_of>>

AudioCall == \E i \in 0..MaxAudioIndex : AudioStart(i)
AudioUpload == \E b \in BOOLEAN, u \in BOOLEAN : AudioGenerated(b, u)
AudioReturn == \E ok \in BOOLEAN : AudioSent(ok)

AudioNext ==
    \/ AudioCall
    \/ AudioUpload
    \/ AudioReturn

SpecAudio == Init /\ [][AudioNext]_vars

AudioSteps == <<"generate", "upload", "send", "delete">>

\* C21: the steps of the audio sub-flow happen in the order generate, upload,
\* send, delete; the send is made only with the file uploaded; and when the
\* send has returned the file is gone from storage exactly if the send
\* succeeded, no other file being touched
C21_AudioOrder ==
    /\ [](/\ Len(audio.log) <= 4
          /\ audio.log = SubSeq(AudioSteps, 1, Len(audio.log))
          /\ audio.pc = "send" =>
                /\ audio.path \in audio.files
                /\ audio.log = <<"generate", "upload">>
          /\ Len(audio.log) = 4 <=> (Len(audio.log) >= 3 /\ audio.send_ok))
    /\ [][/\ audio.pc = "send" /\ audio'.pc = "idle" =>
                /\ audio.path \notin audio'.files <=> audio'.send_ok
                /\ audio'.files \ {audio.path} = audio.files \ {audio.path}
          /\ audio.files \ audio'.files # {} =>
                audio.pc = "send" /\ audio'.send_ok]_vars

\* a send failed and the file is left in storage
C21_Witness ==
    /\ audio.pc = "idle"
    /\ audio.log = <<"generate", "upload", "send">>
    /\ ~audio.send_ok
    /\ audio.path \in audio.files

(* ------------------------ concurrent submissions ----------------------- *)
\* the messages of an order stored by submit_form
SubmittedOf(t) ==
    {i \in MessagesOf(t) : trace[i].inline \/ messages[i].scheduled_at # {}}

\* the step in which call c stores its message
Stores(c) ==
    /\ calls[c].pc = "json"
    /\ calls'[c].pc # "json"
    /\ Len(messages') = Len(messages) + 1

\* C22: a submit_form call that stores a message writes back the counter it
\* read before its await plus one, and touches no other call's fields, so the
\* counter of an order never exceeds its stored messages and can fall behind
\* them: two interleaved calls, both accepted, leave messages_sent = 1
C22_LostUpdate ==
    /\ [](\A t \in Orders : orders[t].messages_sent <= Cardinality(SubmittedOf(t)))
    /\ [][\A c \in Calls : Stores(c) =>
            LET t == calls[c].token
            IN /\ orders'[t].messages_sent = calls[c].messages_sent + 1
               /\ orders'[t].plan = orders[t].plan
               /\ orders'[t].delivered_at = orders[t].delivered_at
               /\ orders'[t].status \in {orders[t].status, "submitted"}]_vars

\* both calls were accepted and stored a message, and the counter is at one
C22_Witness ==
    \E t \in Orders :
        /\ Quiet
        /\ Cardinality(AcceptedOf(t)) = 2
        /\ Cardinality(SubmittedOf(t)) = 2
        /\ orders[t].messages_sent = 1

(* ------------------------ two process instances ------------------------ *)
MaxTwoStored == 1

\* lines 26-56, in another process: the job of each process has its own
\* scheduler, so the two jobs overlap; both query the same store
Sweep2Start ==
    /\ sweep2.pc = "idle"
    /\ LET rows == get_pending_scheduled_messages(clock)
       IN sweep2' = [sweep2 EXCEPT !.pc = IF rows = <<>> THEN "idle" ELSE "deliver",
                                   !.batch = rows, !.tried = <<>>]
    /\ lastResp' = NoResp
    /\ UNCHANGED <<clock, orders, messages, presentations, calls, upload, sweep,
                   trace, link_sends, phone_check, fidelidade,
                   audio, webhooks, sale_id_of>>

\* lines 56-78, in another process
Sweep2Deliver(success) ==
    /\ sweep2.pc = "deliver"
    /\ LET row == Head(sweep2.batch)
           rest == remaining_batch(sweep2.batch, success)
           msgs == deliver_single_message(messages, row.id, success)
       IN /\ messages' = msgs
          /\ trace' = SentBySweep(trace, row.id, success)
          /\ orders' = IF success /\ AllDelivered(msgs, row.order_id)
                       THEN order_delivered(orders, row.order_id)
                       ELSE orders
          /\ sweep2' = [pc |-> IF rest = <<>> THEN "idle" ELSE "deliver",
                        batch |-> rest,
                        tried |-> Append(sweep2.tried, row.id),
                        sent |-> IF success THEN Append(sweep2.sent, row.id)
                                 ELSE sweep2.sent,
                        failed |-> IF success THEN sweep2.failed \ {row.id}
                                   ELSE sweep2.failed \cup {row.id}]
    /\ lastResp' = NoResp
    /\ UNCHANGED <<clock, presentations, calls, upload, sweep, link_sends,
                   phone_check, fidelidade, audio, webhooks, sale_id_of>>

Sweep2Return == \E ok \in BOOLEAN : Sweep2Deliver(ok)

\* submissions one at a time, and the jobs of two processes
TwoNext ==
    \/ Tick
    \/ Webhook
    \/ Quiet /\ Pending < MaxTwoStored /\ Submit
    \/ Body
    \/ InlineReturn
    \/ SweepStart
    \/ SweepReturn
    \/ Sweep2Start
    \/ Sweep2Return

SpecTwo == Init /\ [][TwoNext]_vars

\* successful transport sends of message i by the job of the other process,
\* and by the job of this one
SentBy2(i) == Cardinality({k \in 1..Len(sweep2.sent) : sweep2.sent[k] = i})
SentBy1(i) == trace[i].sweep_sends - SentBy2(i)

MaxRetryStored == 2

\* a submission that is stored: valid phone, a message, no synthesis text,
\* a parseable scheduled_at
ScheduledBody ==
    \E c \in Calls, t \in 0..MaxTime :
        SubmitBody(c, PhoneFormatted, FALSE, FALSE, [kind |-> "iso", t |-> t], TRUE)

\* one process: submissions one at a time, and the job with its history
RetryNext ==
    \/ Tick
    \/ Webhook
    \/ Quiet /\ Pending < MaxRetryStored /\ Submit
    \/ ScheduledBody
    \/ InlineReturn
    \/ Sweep2Start
    \/ Sweep2Return

Sweeping2Id == IF sweep2.batch = <<>> THEN 0 ELSE sweep2.batch[1].id

\* the job runs every minute, a transport call returns, and the transport
\* eventually succeeds for a message that keeps being tried
RetryFairness ==
    /\ WF_vars(Sweep2Start)
    /\ WF_vars(Sweep2Return)
    /\ \A i \in 1..MaxRetryStored :
          SF_vars(Sweeping2Id = i /\ Sweep2Deliver(TRUE))

RetrySpec == Init /\ [][RetryNext]_vars /\ RetryFairness

\* the messages of the last run of the job: those processed, then those to come
Sweep2Ids ==
    sweep2.tried \o [k \in 1..Len(sweep2.batch) |-> sweep2.batch[k].id]

\* C24: a run of the job tries each message at most once; a failed sweep
\* delivery leaves the messages as they were (a message scheduled for later
\* is left with delivered = false) and goes on with the next row;
\* the next run selects every message whose sweep delivery failed and that is
\* still undelivered; and from some point on every message whose sweep
\* delivery failed is delivered (a delivered message stays delivered)
C24_NoRetryWithinSweep ==
    /\ [](\A j, k \in 1..Len(Sweep2Ids) : j # k => Sweep2Ids[j] # Sweep2Ids[k])
    /\ [][/\ \A i \in MsgIds : i \notin sweep2.failed /\ i \in sweep2'.failed =>
                /\ trace[i].future => ~messages[i].delivered
                /\ messages' = messages
                /\ trace' = trace
                /\ sweep2'.batch = Tail(sweep2.batch)
          /\ Sweep2Start =>
                \A i \in sweep2.failed : ~messages[i].delivered =>
                    \E k \in 1..Len(sweep2'.batch) : sweep2'.batch[k].id = i]_vars
    /\ <>[](\A i \in MsgIds : i \in sweep2.failed => messages[i].delivered)

\* a message whose sweep delivery failed has been selected again
C24_Witness ==
    \E i \in MsgIds :
        /\ i \in sweep2.failed
        /\ ~messages[i].delivered
        /\ sweep2.pc = "deliver"
        /\ \E k \in 1..Len(sweep2.batch) : sweep2.batch[k].id = i

(* ---------------------- payments with a sale_id ------------------------ *)
\* the form tokens the store gives to new orders, in the order it gives them
SaleTokenSeq == <<"t1", "t2", "t3">>
SaleTokens == {SaleTokenSeq[k] : k \in 1..Len(SaleTokenSeq)}
SaleIds == {NoSale, "s1", "s2"}
SaleEvents == {SaleApproved, <<"p", "e", "n", "d", "i", "n", "g">>}

InitSale ==
    /\ clock = 0
    /\ orders = [t \in SaleTokens |-> NoOrder]
    /\ messages = <<>>
    /\ presentations = [t \in Tokens |-> 0]
    /\ calls = [c \in Calls |-> IdleCall]
    /\ upload = IdleUpload
    /\ sweep = IdleSweep
    /\ lastResp = NoResp
    /\ trace = <<>>
    /\ link_sends = 0
    /\ phone_check = NoCheck
    /\ fidelidade_tests = <<>>
    /\ fidelidade_messages = <<>>
    /\ fidelidade_out = NoOut
    /\ audio = IdleAudio
    /\ sweep2 = IdleSweep2
    /\ webhooks = [w \in WebhookCalls |-> IdleWebhook]
    /\ sale_id_of = [t \in SaleTokens |-> NoSale]

\* the lookup finds nothing
get_order_by_sale_id_none(sale_id) == {}

\* SupabaseService.get_order_by_sale_id: the first order with the sale_id, if any
get_order_by_sale_id(sale_id) ==
    LET found == {k \in 1..Len(SaleTokenSeq) :
                      /\ orders[SaleTokenSeq[k]].exists
                      /\ sale_id_of[SaleTokenSeq[k]] = sale_id}
    IN IF found = {} THEN {}
       ELSE {SaleTokenSeq[CHOOSE k \in found : \A j \in found : k <= j]}

\* the tokens not given yet
FreeTokens == {k \in 1..Len(SaleTokenSeq) : ~orders[SaleTokenSeq[k]].exists}

\* webhook.py line 23: the request arrives and the handler suspends on
\* request.json()
WebhookStart(w) ==
    /\ webhooks[w].pc = "idle"
    /\ webhooks' = [webhooks EXCEPT ![w].pc = "json"]
    /\ lastResp' = NoResp
    /\ UNCHANGED <<clock, orders, messages, presentations, calls, upload, sweep,
                   trace, link_sends, phone_check, fidelidade, audio, sweep2,
                   sale_id_of>>

\* webhook.py lines 24-45 and create_order_from_webhook lines 33-78: the
\* payload arrives; an approved event with a buyer phone is looked up by its
\* sale_id and, if no order has it, inserted; the handler then suspends in
\* the send of the greeting
WebhookOrder(w, event, has_buyer_phone, sale_id, plan, created) ==
    /\ webhooks[w].pc = "json"
    /\ LET existing == IF sale_id # NoSale THEN get_order_by_sale_id(sale_id) ELSE {}
           token == SaleTokenSeq[CHOOSE k \in FreeTokens : \A j \in FreeTokens : k <= j]
           Return(resp) ==
               /\ lastResp' = resp
               /\ webhooks' = [webhooks EXCEPT ![w] = IdleWebhook]
               /\ UNCHANGED <<orders, sale_id_of>>
       IN IF ~is_approved(event)
          THEN Return(Respond("webhook", UnknownToken, "ignored", "none"))
          ELSE IF ~has_buyer_phone
          THEN Return(Respond("webhook", UnknownToken, "500", "Failed to create order"))
          ELSE IF existing # {}
          THEN \E t \in existing : Return(Respond("webhook", t, "ok", "none"))
          ELSE IF ~created
          THEN Return(Respond("webhook", UnknownToken, "500", "Failed to create order"))
          ELSE /\ FreeTokens # {}
               /\ orders' = [orders EXCEPT ![token] =
                      [exists |-> TRUE, plan |-> plan, status |-> "approved",
                       messages_sent |-> 0, recipient_phone |-> NoPhone,
                       delivered_at |-> FALSE]]
               /\ sale_id_of' = [sale_id_of EXCEPT ![token] = sale_id]
               /\ webhooks' = [webhooks EXCEPT ![w] = [pc |-> "greeting", token |-> token]]
               /\ lastResp' = NoResp
    /\ UNCHANGED <<clock, messages, presentations, calls, upload, sweep, trace,
                   link_sends, phone_check, fidelidade, audio, sweep2>>

\* create_order_from_webhook lines 92-95 and webhook.py lines 49-57: a send
\* returns (its outcome is not looked at); after the second one the handler
\* answers with the order
WebhookSend(w) ==
    /\ webhooks[w].pc \in {"greeting", "link"}
    /\ link_sends' = link_sends + 1
    /\ IF webhooks[w].pc = "greeting"
       THEN /\ webhooks' = [webhooks EXCEPT ![w].pc = "link"]
            /\ lastResp' = NoResp
       ELSE /\ webhooks' = [webhooks EXCEPT ![w] = IdleWebhook]
            /\ lastResp' = Respond("webhook", webhooks[w].token, "ok", "none")
    /\ UNCHANGED <<clock, orders, messages, presentations, calls, upload, sweep,
                   trace, phone_check, fidelidade, audio, sweep2, sale_id_of>>

SaleArrives == \E w \in WebhookCalls : WebhookStart(w)
SalePayload ==
    \E w \in WebhookCalls, e \in SaleEvents, hp \in BOOLEAN, sid \in SaleIds,
       p \in {"basico", "multi_mensagem"}, cr \in BOOLEAN :
        WebhookOrder(w, e, hp, sid, p, cr)
SaleSent == \E w \in WebhookCalls : WebhookSend(w)

SaleNext ==
    \/ SaleArrives
    \/ SalePayload
    \/ SaleSent

SpecSale == InitSale /\ [][SaleNext]_vars

\* the orders that carry a sale_id
OrdersOfSale(sale_id) ==
    {t \in SaleTokens : orders[t].exists /\ sale_id_of[t] = sale_id}

\* C25: no two orders carry the same non-empty sale_id; an approved webhook
\* for a sale_id that an order carries is answered with that order and
\* inserts nothing, also while the request that inserted the order is still
\* suspended in its sends
C25_OneOrderPerSale ==
    /\ [](\A sid \in SaleIds \ {NoSale} : Cardinality(OrdersOfSale(sid)) <= 1)
    /\ [][\A sid \in SaleIds \ {NoSale}, t \in SaleTokens :
            /\ t \in OrdersOfSale(sid)
            /\ \E w \in WebhookCalls, p \in PlanTypes, cr \in BOOLEAN :
                  WebhookOrder(w, SaleApproved, TRUE, sid, p, cr)
            => /\ orders' = orders
               /\ sale_id_of' = sale_id_of
               /\ link_sends' = link_sends
               /\ lastResp' = Respond("webhook", t, "ok", "none")]_vars

\* a second request for the sale was answered with the order while the
\* request that inserted it is still sending the greeting
C25_Witness ==
    \E w \in WebhookCalls, t \in SaleTokens :
        /\ webhooks[w] = [pc |-> "greeting", token |-> t]
        /\ sale_id_of[t] # NoSale
        /\ lastResp = Respond("webhook", t, "ok", "none")
        /\ Cardinality(OrdersOfSale(sale_id_of[t])) = 1

(* ------------------------- rejected submissions ------------------------ *)
\* C26: a step that answers a submit_form call with a 4xx status leaves the
\* order rows and the stored messages as they were
C26_RejectionChangesNothing ==
    [][lastResp'.op = "submit" /\ lastResp'.code \in {"400", "404"} =>
          /\ orders' = orders
          /\ messages' = messages]_vars

(* ----------------------- two recipients, one order --------------------- *)
\* a plain submission for another recipient
PlainLater ==
    \E c \in Calls :
        SubmitBody(c, PhoneLocal, FALSE, FALSE, [kind |-> "absent", t |-> 0], TRUE)

\* every message with a scheduled_at is submitted for PhoneFormatted, every
\* message without one for PhoneLocal; one request at a time
PhonesNext ==
    \/ Tick
    \/ Webhook
    \/ Quiet /\ Pending < MaxStored /\ Submit
    \/ ScheduledBody
    \/ PlainLater
    \/ InlineReturn
    \/ Quiet /\ SweepStart
    \/ SweepReturn

SpecPhones == Init /\ [][PhonesNext]_vars

\* C27: the sweep delivers a scheduled message to the recipient of the
\* submission that stored it: here every row a sweep has selected goes to
\* the cleaned PhoneFormatted, whatever was submitted for the order since
C27_SweepUsesSubmittedPhone ==
    \A k \in 1..Len(sweep.batch) :
        sweep.batch[k].recipient_phone = recipient_clean_of[PhoneFormatted]

(* ---------------------- failed inline deliveries ----------------------- *)
\* the step answers the 500 of a failed inline delivery of call c
InlineFailed(c) ==
    /\ calls[c].pc = "deliver"
    /\ calls'[c].pc = "idle"
    /\ lastResp' = Respond("submit", calls[c].token, "500", "Falha ao enviar mensagem")

\* C28: while a call is in its inline delivery its message is stored and
\* counted; a failed inline delivery is answered 500 and takes back neither;
\* and a message without scheduled_at whose inline delivery failed is never
\* selected or sent by a sweep and stays undelivered
C28_FailedInlineConsumesSlot ==
    /\ [](\A c \in Calls : calls[c].pc = "deliver" =>
            /\ calls[c].msg \in MsgIds
            /\ messages[calls[c].msg].message_index = calls[c].messages_sent
            /\ orders[calls[c].token].messages_sent = calls[c].messages_sent + 1)
    /\ [](\A t \in Orders : \A i \in FailedOf(t) : messages[i].scheduled_at = {} =>
            /\ ~messages[i].delivered
            /\ i \notin BatchIds
            /\ Sends(i) = 0)
    /\ [][\A c \in Calls :
            /\ calls[c].pc = "deliver" /\ calls'[c].pc = "idle" /\ messages' = messages
                  => InlineFailed(c)
            /\ InlineFailed(c) => messages' = messages /\ orders' = orders]_vars

\* the inline delivery of the only message of an order failed; the message is
\* undelivered, and the next submission was refused for lack of quota
C28_Witness ==
    \E t \in Orders : \E i \in FailedOf(t) :
        /\ messages[i].scheduled_at = {}
        /\ ~messages[i].delivered
        /\ orders[t].messages_sent = max_messages(orders[t].plan)
        /\ clock = MaxTime
        /\ lastResp = Respond("submit", t, "400", "Todas as mensagens ja foram enviadas")

(* ------------------------- delivery timestamp -------------------------- *)
\* C29: an order with status "delivered" has its delivered_at set; a step
\* that makes an order "delivered" sets delivered_at in the same step, and
\* no step clears it
C29_DeliveredHasTimestamp ==
    /\ [](\A t \in Orders : orders[t].status = "delivered" => orders[t].delivered_at)
    /\ [][\A t \in Tokens :
            /\ orders'[t].status = "delivered" /\ orders[t].status # "delivered"
                  => orders'[t].delivered_at
            /\ orders[t].delivered_at => orders'[t].delivered_at]_vars

\* an order was completed by a sweep, and another look shows it dated
C29_Witness ==
    \E t \in Orders :
        /\ orders[t].status = "delivered"
        /\ orders[t].delivered_at
        /\ \E i \in MessagesOf(t) : trace[i].sweep_sends = 1 /\ ~trace[i].inline_ok

(* --------------------------- stored messages --------------------------- *)
\* C30: the messages of an order stored by submit_form are never more than
\* max_messages of its plan, whatever the interleaving of the calls
C30_StoredWithinQuota ==
    \A t \in Orders : Cardinality(SubmittedOf(t)) <= max_messages(orders[t].plan)

====
